---- MODULE Spec2Model ----
(***************************************************************************)
(* A model of src/birb.cpp: the helper layer of the birb package manager.  *)
(*                                                                         *)
(* A std::string is a sequence of one-character strings, a std::vector a   *)
(* sequence.  Offsets and lengths are the 0-based size_t values the code   *)
(* uses; SubSeq is 1-based, so an offset p is position p + 1.              *)
(***************************************************************************)
EXTENDS Integers, Sequences, FiniteSets, TLC

VARIABLES
    split_call,     \* the last call of split_string: its arguments and result
    sources_call,   \* the configuration file and the last get_pkg_sources call
    locate_call,    \* the filesystem, the arguments and the result of locate_pkg_repo
    fs,             \* seed scripts on disk: path -> file state
    var_cache,      \* birb::var_cache, the process-wide map key -> value
    last,           \* the last read_pkg_variable call: arguments and outcome
    watch,          \* one earlier call that returned a non-empty value
    stored_by       \* key -> the call that stored the key's non-empty value

vars == <<split_call, sources_call, locate_call, fs, var_cache, last, watch, stored_by>>

(***************************************************************************)
(* Bounds of the model.                                                    *)
(***************************************************************************)
MaxTextLen == 4     \* longest text handed to split_string
MaxCfgLen == 7      \* longest configuration file, in characters
MaxSources == 2     \* longest list handed to locate_pkg_repo
MaxScriptLines == 2 \* most lines of a seed script

(***************************************************************************)
(* std::string                                                             *)
(***************************************************************************)
\* size_t is 64 bits wide in the build; TLC's integers are 32 bits wide and
\* every string of the model is far shorter, so the largest TLC integer
\* stands for the largest size_t (also std::string::npos).
SizeMax == 2147483647

npos == SizeMax

\* size_t subtraction a - b: wraps below zero.
SizeSub(a, b) == IF a >= b THEN a - b ELSE SizeMax - (b - a) + 1

Min(a, b) == IF a <= b THEN a ELSE b

\* s.substr(pos, n) for pos <= s.size()
substr(s, pos, n) == SubSeq(s, pos + 1, pos + Min(n, Len(s) - pos))

\* s.erase(pos, n) for pos <= s.size(): removes min(n, size - pos) characters
erase(s, pos, n) ==
    SubSeq(s, 1, pos) \o SubSeq(s, pos + Min(n, Len(s) - pos) + 1, Len(s))

\* s.erase(pos, n) throws std::out_of_range iff pos > s.size()
EraseThrows(s, pos) == pos > Len(s)

\* text.find(delimiter): the smallest offset at which delimiter occurs, or npos
find(text, delimiter) ==
    LET hits == {p \in 0..Len(text) :
                    /\ p + Len(delimiter) <= Len(text)
                    /\ SubSeq(text, p + 1, p + Len(delimiter)) = delimiter}
    IN  IF hits = {} THEN npos
        ELSE CHOOSE p \in hits : \A q \in hits : p <= q

\* All strings over alphabet of length at most n
RECURSIVE StringsUpTo(_, _)
StringsUpTo(alphabet, n) ==
    IF n = 0 THEN {<<>>}
    ELSE LET shorter == StringsUpTo(alphabet, n - 1)
         IN  shorter \cup {Append(s, c) : s \in shorter, c \in alphabet}

(***************************************************************************)
(* birb::split_string                                                      *)
(***************************************************************************)
\* Mutant of SplitLoop: the remainder is appended even when it is empty.
RECURSIVE MutSplitLoop(_, _, _)
MutSplitLoop(text, delimiter, result) ==
    LET pos == find(text, delimiter)
    IN  IF pos # npos
        THEN MutSplitLoop(erase(text, 0, pos + Len(delimiter)), delimiter,
                          Append(result, substr(text, 0, pos)))
        ELSE Append(result, text)

\* The while loop of split_string and the trailing push_back.
RECURSIVE SplitLoop(_, _, _)
SplitLoop(text, delimiter, result) ==
    LET pos == find(text, delimiter)
    IN  IF pos # npos
        THEN SplitLoop(erase(text, 0, pos + Len(delimiter)), delimiter,
                       Append(result, substr(text, 0, pos)))
        ELSE IF text # <<>> THEN Append(result, text) ELSE result

split_string(text, delimiter) == SplitLoop(text, delimiter, <<>>)

SplitChars == {"a", ";", "c"}
SplitTexts == StringsUpTo(SplitChars, MaxTextLen)
SplitDelims == {<<";">>, <<";", ";">>, <<"a", ";">>}

NoSplit == [called |-> FALSE, text |-> <<>>, delimiter |-> <<>>, result |-> <<>>]

SplitInit == split_call = NoSplit

SplitString ==
    /\ ~split_call.called
    /\ \E text \in SplitTexts, delimiter \in SplitDelims :
          split_call' = [called |-> TRUE, text |-> text, delimiter |-> delimiter,
                         result |-> split_string(text, delimiter)]
    /\ UNCHANGED <<sources_call, locate_call, fs, var_cache, last, watch, stored_by>>

(***************************************************************************)
(* Files and std::ifstream / std::getline                                  *)
(***************************************************************************)
NoFile == [kind |-> "none", data |-> <<>>]
RegularFile(data) == [kind |-> "file", data |-> data]

\* std::ifstream::is_open() after construction from a path
is_open(file) == file.kind = "file"

\* The stream right after a successful open: offset 0, no state bit set.
OpenStream == [pos |-> 0, eof |-> FALSE, fail |-> FALSE]

\* std::getline(stream, str): when the stream is not good the sentry fails,
\* failbit is set and str is left as it was.  Otherwise str is erased and
\* characters are extracted up to and including the next newline (which is
\* not stored); reaching the end of the file sets eofbit, and extracting
\* nothing at all sets failbit.  ok is the loop condition.
getline(data, st, str) ==
    IF st.eof \/ st.fail
    THEN [st |-> [st EXCEPT !.fail = TRUE], str |-> str, ok |-> FALSE]
    ELSE LET rest == SubSeq(data, st.pos + 1, Len(data))
             nl == find(rest, <<"\n">>)
         IN  IF nl # npos
             THEN [st |-> [st EXCEPT !.pos = st.pos + nl + 1],
                   str |-> substr(rest, 0, nl), ok |-> TRUE]
             ELSE [st |-> [pos |-> Len(data), eof |-> TRUE, fail |-> rest = <<>>],
                   str |-> rest, ok |-> rest # <<>>]

(***************************************************************************)
(* birb::read_file                                                         *)
(***************************************************************************)
\* Mutant of IgnoredLine: comment lines are kept.
MutIgnoredLine(line) == Len(line) = 0

\* The lines 96-97 test: empty lines and lines starting with '#' are skipped.
IgnoredLine(line) == Len(line) = 0 \/ line[1] = "#"

\* The while (std::getline(file, line)) loop of read_file.
RECURSIVE ReadFileLoop(_, _, _, _)
ReadFileLoop(data, st, line, lines) ==
    LET g == getline(data, st, line)
    IN  IF ~g.ok THEN lines
        ELSE ReadFileLoop(data, g.st, g.str,
                          IF IgnoredLine(g.str) THEN lines ELSE Append(lines, g.str))

\* read_file on a file that opened.
read_file(file) == ReadFileLoop(file.data, OpenStream, <<>>, <<>>)

(***************************************************************************)
(* birb::get_pkg_sources                                                   *)
(***************************************************************************)
\* line[i] of a std::vector: an index at or past size() is undefined
\* behaviour; when the process survives it the read yields some string.
At(line, i, garbage) == IF i < Len(line) THEN line[i + 1] ELSE garbage

\* The body of the for loop: one record from one retained line.
SourceOf(repository_line, garbage) ==
    LET line == split_string(repository_line, <<";">>)
    IN  [name |-> At(line, 0, garbage),
         url  |-> At(line, 1, garbage),
         path |-> At(line, 2, garbage)]

RECURSIVE SourcesLoop(_, _, _, _)
SourcesLoop(repository_lines, i, garbage, sources) ==
    IF i < Len(repository_lines)
    THEN SourcesLoop(repository_lines, i + 1, garbage,
                     Append(sources, SourceOf(repository_lines[i + 1], garbage)))
    ELSE sources

\* Whether the loop reads line[0..2] past the end of some split result.
OutOfBounds(repository_lines) ==
    \E i \in 1..Len(repository_lines) :
        Len(split_string(repository_lines[i], <<";">>)) < 3

\* get_pkg_sources on the configuration file.  An unopened file ends the
\* process in read_file with exit(2).  An out-of-bounds read either faults
\* (crash) or yields garbage.
get_pkg_sources(file, garbage, crash) ==
    IF ~is_open(file)
    THEN [kind |-> "exit", status |-> 2, sources |-> <<>>, oob |-> FALSE]
    ELSE LET repository_lines == read_file(file)
             oob == OutOfBounds(repository_lines)
         IN  IF oob /\ crash
             THEN [kind |-> "fault", status |-> 0, sources |-> <<>>, oob |-> TRUE]
             ELSE [kind |-> "return", status |-> 0,
                   sources |-> SourcesLoop(repository_lines, 0, garbage, <<>>),
                   oob |-> oob]

CfgChars == {"a", ";", "#", "\n"}
CfgFiles == {NoFile} \cup {RegularFile(d) : d \in StringsUpTo(CfgChars, MaxCfgLen)}
Garbage == {<<>>, <<"?">>}

NoSources == [called |-> FALSE, file |-> NoFile,
              outcome |-> [kind |-> "none", status |-> 0, sources |-> <<>>, oob |-> FALSE]]

SourcesInit == sources_call = NoSources

GetPkgSources ==
    /\ ~sources_call.called
    /\ \E file \in CfgFiles, garbage \in Garbage, crash \in BOOLEAN :
          sources_call' = [called |-> TRUE, file |-> file,
                           outcome |-> get_pkg_sources(file, garbage, crash)]
    /\ UNCHANGED <<split_call, locate_call, fs, var_cache, last, watch, stored_by>>

(***************************************************************************)
(* pkg_source::is_valid and birb::locate_pkg_repo                          *)
(***************************************************************************)
\* pkg_source(): the default-constructed record
EmptySource == [name |-> <<>>, url |-> <<>>, path |-> <<>>]

is_valid(s) == s.name # <<>> \/ s.url # <<>> \/ s.path # <<>>

SeedSuffix == <<"/", "s", "e", "e", "d", ".", "s", "h">>

\* path + "/" + pkg_name + "/seed.sh"
SeedPath(path, pkg_name) == path \o <<"/">> \o pkg_name \o SeedSuffix

\* Mutant of ExistsRegular: the file type is not tested.
MutExistsOnly(disk, seed_path) == disk[seed_path] # "none"

\* std::filesystem::exists(p) && std::filesystem::is_regular_file(p)
ExistsRegular(disk, seed_path) ==
    disk[seed_path] # "none" /\ disk[seed_path] = "file"

\* The range-for loop of locate_pkg_repo, from element i (0-based) on.
RECURSIVE LocateLoop(_, _, _, _)
LocateLoop(disk, pkg_name, package_sources, i) ==
    IF i >= Len(package_sources) THEN EmptySource
    ELSE LET s == package_sources[i + 1]
         IN  IF ExistsRegular(disk, SeedPath(s.path, pkg_name))
             THEN s
             ELSE LocateLoop(disk, pkg_name, package_sources, i + 1)

locate_pkg_repo(disk, pkg_name, package_sources) ==
    LocateLoop(disk, pkg_name, package_sources, 0)

LocPkgNames == {<<"p">>, <<"q">>}
LocRepoPaths == {<<>>, <<"r">>}
LocRecords == [name : {<<>>, <<"n">>}, url : {<<>>, <<"u">>}, path : LocRepoPaths]
LocPaths == {SeedPath(p, k) : p \in LocRepoPaths, k \in LocPkgNames}
LocDisks == [LocPaths -> {"none", "dir", "file"}]

RECURSIVE ListsUpTo(_, _)
ListsUpTo(S, n) ==
    IF n = 0 THEN {<<>>}
    ELSE LET shorter == ListsUpTo(S, n - 1)
         IN  shorter \cup {Append(l, x) : l \in shorter, x \in S}

NoLocate == [called |-> FALSE, disk |-> [p \in LocPaths |-> "none"],
             pkg_name |-> <<>>, package_sources |-> <<>>, result |-> EmptySource]

LocateInit == locate_call = NoLocate

LocatePkgRepo ==
    /\ ~locate_call.called
    /\ \E disk \in LocDisks, pkg_name \in LocPkgNames,
          package_sources \in ListsUpTo(LocRecords, MaxSources) :
          locate_call' = [called |-> TRUE, disk |-> disk, pkg_name |-> pkg_name,
                          package_sources |-> package_sources,
                          result |-> locate_pkg_repo(disk, pkg_name, package_sources)]
    /\ UNCHANGED <<split_call, sources_call, fs, var_cache, last, watch, stored_by>>

(***************************************************************************)
(* birb::read_pkg_variable and birb::var_cache                             *)
(***************************************************************************)
\* var_cache[key] on a std::unordered_map: an absent key is inserted with
\* the empty string.
Touch(cache, key) ==
    IF key \in DOMAIN cache THEN cache ELSE cache @@ (key :> <<>>)

\* The value a lookup of key yields (empty when the key is absent).
CacheAt(cache, key) == IF key \in DOMAIN cache THEN cache[key] ELSE <<>>

\* pkg_name + var_name
CacheKey(pkg_name, var_name) == pkg_name \o var_name

\* var_name + "=\""
Assignment(var_name) == var_name \o <<"=", "\"">>

\* The line 129 test.
IsVarLine(var_line, var_name) ==
    substr(var_line, 0, Len(var_name) + 2) = Assignment(var_name)

\* The while (std::getline(pkg_file, var_line)) loop: the value of var_line
\* when the loop ends, by the break or by a failed getline.
RECURSIVE ScanLoop(_, _, _, _)
ScanLoop(data, st, var_line, var_name) ==
    LET g == getline(data, st, var_line)
    IN  IF ~g.ok THEN g.str
        ELSE IF IsVarLine(g.str, var_name) THEN g.str
        ELSE ScanLoop(data, g.st, g.str, var_name)

\* Mutant of CleanUp: the value is returned but not stored in the cache.
MutCleanUp(cache, key, var_line, var_name) ==
    LET stripped == erase(var_line, 0, Len(var_name) + 2)
        pos == SizeSub(Len(stripped), 1)
    IN  IF EraseThrows(stripped, pos)
        THEN [kind |-> "throw", value |-> <<>>, file_access |-> TRUE,
              hit |-> FALSE, cache |-> cache]
        ELSE [kind |-> "return", value |-> erase(stripped, pos, 1),
              file_access |-> TRUE, hit |-> FALSE, cache |-> cache]

\* Lines 139-146: the two erase calls, the store and the return.  The
\* second erase is at offset size() - 1, which wraps for an empty string and
\* makes erase throw std::out_of_range before anything is stored.
CleanUp(cache, key, var_line, var_name) ==
    LET stripped == erase(var_line, 0, Len(var_name) + 2)
        pos == SizeSub(Len(stripped), 1)
    IN  IF EraseThrows(stripped, pos)
        THEN [kind |-> "throw", value |-> <<>>, file_access |-> TRUE,
              hit |-> FALSE, cache |-> cache]
        ELSE LET value == erase(stripped, pos, 1)
             IN  [kind |-> "return", value |-> value, file_access |-> TRUE,
                  hit |-> FALSE, cache |-> [cache EXCEPT ![key] = value]]

\* Mutant of read_pkg_variable: a script that does not open ends the process,
\* as read_file does for the configuration file.
MutReadPkgVariable(cache, disk, pkg_name, var_name, repo_path) ==
    LET key == CacheKey(pkg_name, var_name)
        touched == Touch(cache, key)
        pkg_file == disk[SeedPath(repo_path, pkg_name)]
    IN  IF touched[key] # <<>>
        THEN [kind |-> "return", value |-> touched[key], file_access |-> FALSE,
              hit |-> TRUE, cache |-> touched]
        ELSE IF ~is_open(pkg_file)
        THEN [kind |-> "exit", value |-> <<>>, file_access |-> TRUE,
              hit |-> FALSE, cache |-> touched]
        ELSE CleanUp(touched, key,
                     ScanLoop(pkg_file.data, OpenStream, <<>>, var_name), var_name)

\* read_pkg_variable: the outcome of the call and the cache it leaves.
read_pkg_variable(cache, disk, pkg_name, var_name, repo_path) ==
    LET key == CacheKey(pkg_name, var_name)
        touched == Touch(cache, key)
        pkg_file == disk[SeedPath(repo_path, pkg_name)]
    IN  IF touched[key] # <<>>
        THEN [kind |-> "return", value |-> touched[key], file_access |-> FALSE,
              hit |-> TRUE, cache |-> touched]
        ELSE IF ~is_open(pkg_file)
        THEN [kind |-> "return", value |-> <<>>, file_access |-> TRUE,
              hit |-> FALSE, cache |-> touched]
        ELSE CleanUp(touched, key,
                     ScanLoop(pkg_file.data, OpenStream, <<>>, var_name), var_name)

PkgNames == {<<"a">>, <<"a", "b">>}
VarNames == {<<"V">>, <<"b", "V">>}
RepoPaths == {<<"r">>, <<"s">>}
ScriptPaths == {SeedPath(r, p) : r \in RepoPaths, p \in PkgNames}

ScriptLines == {<<"V", "=", "\"", "x", "\"">>, <<"V", "=", "\"", "y", "\"">>,
                <<"V", "=", "\"">>, <<"z", "z", "z", "z", "z">>}

\* The lines joined by newlines, with or without a final newline.
RECURSIVE JoinLines(_)
JoinLines(lines) ==
    IF lines = <<>> THEN <<>>
    ELSE IF Len(lines) = 1 THEN lines[1]
    ELSE lines[1] \o <<"\n">> \o JoinLines(Tail(lines))

Scripts ==
    {JoinLines(ls) \o end : ls \in ListsUpTo(ScriptLines, MaxScriptLines),
                            end \in {<<>>, <<"\n">>}}

\* The scripts the environment installs while the process runs.
EnvScripts == {<<"V", "=", "\"", "x", "\"", "\n">>, <<"V", "=", "\"", "y", "\"", "\n">>,
               <<"z", "z", "z", "z", "z">>}

\* Repository s holds no packages: probing it is the expected miss.
InstallPaths == {SeedPath(<<"r">>, p) : p \in PkgNames}

NoCall == [called |-> FALSE, pkg_name |-> <<>>, var_name |-> <<>>, repo_path |-> <<>>,
           opened |-> FALSE, before |-> <<>>, kind |-> "none", value |-> <<>>,
           file_access |-> FALSE, hit |-> FALSE, sampled |-> FALSE]

NoWatch == [set |-> FALSE, pkg_name |-> <<>>, var_name |-> <<>>, repo_path |-> <<>>,
            value |-> <<>>]

EmptyCache == [k \in {} |-> <<>>]

ReadInit ==
    /\ var_cache = EmptyCache
    /\ last = NoCall
    /\ watch = NoWatch
    /\ stored_by = EmptyCache

\* A call of read_pkg_variable.  last records the call with the file and the
\* cached value it found; stored_by and watch are history: who stored a
\* non-empty value under a key, and one sampled call that returned one.
ReadPkgVariable ==
    /\ \E pkg_name \in PkgNames, var_name \in VarNames, repo_path \in RepoPaths,
          sample \in BOOLEAN :
          LET r == read_pkg_variable(var_cache, fs, pkg_name, var_name, repo_path)
              key == CacheKey(pkg_name, var_name)
              nonempty == r.kind = "return" /\ r.value # <<>>
              sampled == sample /\ nonempty /\ ~watch.set
          IN  /\ var_cache' = r.cache
              /\ last' = [called |-> TRUE, pkg_name |-> pkg_name, var_name |-> var_name,
                          repo_path |-> repo_path,
                          opened |-> is_open(fs[SeedPath(repo_path, pkg_name)]),
                          before |-> CacheAt(var_cache, key),
                          kind |-> r.kind, value |-> r.value,
                          file_access |-> r.file_access, hit |-> r.hit,
                          sampled |-> sampled]
              /\ watch' = IF sampled
                          THEN [set |-> TRUE, pkg_name |-> pkg_name,
                                var_name |-> var_name, repo_path |-> repo_path,
                                value |-> r.value]
                          ELSE watch
              /\ stored_by' = IF nonempty /\ ~r.hit
                              THEN (key :> [pkg_name |-> pkg_name, var_name |-> var_name])
                                   @@ stored_by
                              ELSE stored_by
    /\ UNCHANGED <<split_call, sources_call, locate_call, fs>>

\* The environment installs or rewrites a seed script.
WriteScript ==
    /\ \E path \in InstallPaths, data \in EnvScripts :
          fs' = [fs EXCEPT ![path] = RegularFile(data)]
    /\ UNCHANGED <<split_call, sources_call, locate_call, var_cache, last, watch, stored_by>>

\* The environment removes a seed script.
RemoveScript ==
    /\ \E path \in ScriptPaths :
          /\ fs[path] # NoFile
          /\ fs' = [fs EXCEPT ![path] = NoFile]
    /\ UNCHANGED <<split_call, sources_call, locate_call, var_cache, last, watch, stored_by>>

(***************************************************************************)
(* Specifications                                                          *)
(***************************************************************************)
PureInit == SplitInit /\ SourcesInit /\ LocateInit

\* The process with its cache, and the environment changing the disk.
Init == PureInit /\ ReadInit /\ fs = [p \in ScriptPaths |-> NoFile]

Next == ReadPkgVariable \/ WriteScript \/ RemoveScript

Spec == Init /\ [][Next]_vars

\* Calls of read_pkg_variable on a disk holding one script of any shape.
ExtractInit ==
    /\ PureInit /\ ReadInit
    /\ \E path \in ScriptPaths, data \in Scripts :
          fs = [p \in ScriptPaths |-> IF p = path THEN RegularFile(data) ELSE NoFile]

ExtractNext == ReadPkgVariable

SpecExtract == ExtractInit /\ [][ExtractNext]_vars

SplitSpecInit == Init
SplitNext == SplitString
SpecSplit == SplitSpecInit /\ [][SplitNext]_vars

SourcesNext == GetPkgSources
SpecSources == Init /\ [][SourcesNext]_vars

LocateNext == LocatePkgRepo
SpecLocate == Init /\ [][LocateNext]_vars

(***************************************************************************)
(* Reference definitions used to state the claims                          *)
(***************************************************************************)
\* The lines of a text file, read off the positions of its newlines: a line
\* starts at offset 0 and after every newline, and the text after the last
\* newline is a line only when it is not empty.
FileLines(data) ==
    LET newlines == {i \in 1..Len(data) : data[i] = "\n"}
        starts == {b \in {0} \cup newlines : b < Len(data)}
        stop(b) == IF \E i \in newlines : i > b
                   THEN CHOOSE i \in newlines :
                            i > b /\ \A j \in newlines : j > b => i <= j
                   ELSE Len(data) + 1
        nth(k) == CHOOSE b \in starts : Cardinality({c \in starts : c < b}) = k - 1
    IN  [k \in 1..Cardinality(starts) |-> SubSeq(data, nth(k) + 1, stop(nth(k)) - 1)]

Retained(line) == line # <<>> /\ line[1] # "#"

RetainedLines(data) == SelectSeq(FileLines(data), Retained)

Count(line, ch) == Cardinality({i \in 1..Len(line) : line[i] = ch})

RECURSIVE Join(_, _)
Join(pieces, delimiter) ==
    IF pieces = <<>> THEN <<>>
    ELSE IF Len(pieces) = 1 THEN pieces[1]
    ELSE pieces[1] \o delimiter \o Join(Tail(pieces), delimiter)

Occurs(text, delimiter) ==
    \E p \in 0..Len(text) :
        p + Len(delimiter) <= Len(text)
        /\ SubSeq(text, p + 1, p + Len(delimiter)) = delimiter

\* In piece followed by delimiter, the delimiter occurs first at the end.
CutAtLeftmost(piece, delimiter) ==
    \A p \in 0..(Len(piece) - 1) :
        SubSeq(piece \o delimiter, p + 1, p + Len(delimiter)) # delimiter

\* The indices of the records whose seed script is a regular file.
Matching(c) ==
    {i \in 1..Len(c.package_sources) :
        c.disk[SeedPath(c.package_sources[i].path, c.pkg_name)] = "file"}

\* The indices of the lines of data that begin with var_name="
VarLines(data, var_name) ==
    {i \in 1..Len(FileLines(data)) :
        /\ Len(FileLines(data)[i]) >= Len(var_name) + 2
        /\ SubSeq(FileLines(data)[i], 1, Len(var_name) + 2) = var_name \o <<"=", "\"">>}

LastKey == last.pkg_name \o last.var_name
LastScript == fs[SeedPath(last.repo_path, last.pkg_name)]

(***************************************************************************)
(* Claims                                                                  *)
(***************************************************************************)
\* C1: locate_pkg_repo returns the record with the smallest index whose
\* path/pkg_name/seed.sh is a regular file, and the all-empty record when no
\* record of the list (the empty list included) has one.
C1_FirstMatchWins ==
    locate_call.called =>
        LET m == Matching(locate_call)
        IN  IF m = {} THEN locate_call.result = EmptySource
            ELSE \E i \in m : /\ \A j \in m : i <= j
                              /\ locate_call.result = locate_call.package_sources[i]

C1_Witness ==
    /\ locate_call.called
    /\ Matching(locate_call) = {1, 2}
    /\ locate_call.package_sources[1] # locate_call.package_sources[2]
    /\ locate_call.result = locate_call.package_sources[1]

\* C9: is_valid() on the record locate_pkg_repo returns is true exactly when
\* some record of the list has a regular file at path/pkg_name/seed.sh.
C9_SentinelDecisive ==
    locate_call.called =>
        (is_valid(locate_call.result) <=> Matching(locate_call) # {})

\* C5: split_string cuts the text at the leftmost occurrence of the
\* delimiter again and again; every cut contributes the text before it, and
\* the remainder after the last cut is appended only when it is not empty.
C5_SplitCuts ==
    split_call.called =>
        LET r == split_call.result
            t == split_call.text
            d == split_call.delimiter
        IN  \/ r = <<>> /\ t = <<>>
            \/ /\ r # <<>>
               /\ t = Join(r, d)
               /\ r[Len(r)] # <<>>
               /\ ~Occurs(r[Len(r)], d)
               /\ \A i \in 1..(Len(r) - 1) : CutAtLeftmost(r[i], d)
            \/ /\ r # <<>>
               /\ t = Join(r, d) \o d
               /\ \A i \in 1..Len(r) : CutAtLeftmost(r[i], d)

C5_Witness ==
    /\ split_call.called
    /\ split_call.text = <<"a", ";", ";", "c">>
    /\ split_call.delimiter = <<";">>
    /\ split_call.result = <<<<"a">>, <<>>, <<"c">>>>

\* C6: when the configuration file opens and every retained line splits
\* into at least three fields, get_pkg_sources returns one record per line
\* that is non-empty and does not begin with '#', in file order, the k-th
\* record holding fields 0, 1 and 2 of the k-th retained line.
C6_OneRecordPerLine ==
    LET c == sources_call
        lines == RetainedLines(c.file.data)
        fields(k) == split_string(lines[k], <<";">>)
    IN  (/\ c.called
         /\ c.file.kind = "file"
         /\ \A k \in 1..Len(lines) : Len(fields(k)) >= 3)
        => /\ c.outcome.kind = "return"
           /\ c.outcome.sources =
                 [k \in 1..Len(lines) |->
                     [name |-> fields(k)[1], url |-> fields(k)[2], path |-> fields(k)[3]]]

C6_Witness ==
    /\ sources_call.called
    /\ sources_call.file.data = <<"#", "\n", "a", ";", "a", ";", "a">>
    /\ sources_call.outcome.kind = "return"
    /\ sources_call.outcome.sources = <<[name |-> <<"a">>, url |-> <<"a">>, path |-> <<"a">>]>>

\* C10: every retained configuration line with at least two ';' splits into
\* at least three fields, so an out-of-bounds field read happens only for
\* lines with fewer than two ';'.
C10_TwoSemicolonsInBounds ==
    LET c == sources_call
        lines == RetainedLines(c.file.data)
    IN  (c.called /\ c.file.kind = "file")
        => /\ \A k \in 1..Len(lines) :
                 Count(lines[k], ";") >= 2 => Len(split_string(lines[k], <<";">>)) >= 3
           /\ c.outcome.oob => \E k \in 1..Len(lines) : Count(lines[k], ";") < 2

\* C3: once a call has returned a non-empty value, every later call with
\* the same three arguments returns that value without opening a file,
\* whatever happened to the disk and whichever calls came in between.
C3_CachedValueSticks ==
    (/\ watch.set
     /\ last.called /\ ~last.sampled
     /\ last.pkg_name = watch.pkg_name
     /\ last.var_name = watch.var_name
     /\ last.repo_path = watch.repo_path)
    => /\ last.kind = "return"
       /\ last.value = watch.value
       /\ ~last.file_access

C3_Witness ==
    /\ watch.set
    /\ last.called /\ ~last.sampled
    /\ last.pkg_name = watch.pkg_name
    /\ last.var_name = watch.var_name
    /\ last.repo_path = watch.repo_path
    /\ ~last.opened
    /\ last.value = watch.value
    /\ \E k \in DOMAIN var_cache : k # LastKey /\ var_cache[k] # <<>>

\* C4 as stated: a call whose script does not exist or cannot be opened
\* returns the empty string and leaves the process running.
C4_MissingScriptReturnsEmpty ==
    (last.called /\ ~last.opened)
    => (last.kind = "return" /\ last.value = <<>>)

\* C4 as amended: a call whose script cannot be opened returns normally; it
\* returns the empty string when the key pkg_name+var_name holds no non-empty
\* cached value, and the cached value otherwise.
C4_MissingScriptUncached ==
    (last.called /\ ~last.opened)
    => /\ last.kind = "return"
       /\ last.value = last.before

C4_Witness ==
    /\ last.called /\ ~last.opened
    /\ last.before = <<>>
    /\ last.kind = "return" /\ last.value = <<>>
    /\ \E k \in DOMAIN var_cache : var_cache[k] # <<>>

\* C8: a call returns a value from the cache only if an earlier call with
\* the same package name and the same variable name stored it.
C8_CacheIsolation ==
    (last.called /\ last.hit)
    => /\ LastKey \in DOMAIN stored_by
       /\ stored_by[LastKey] = [pkg_name |-> last.pkg_name, var_name |-> last.var_name]

\* C2: with no non-empty cached value and a script holding a line that
\* begins with var_name=", the call returns the first such line without its
\* first len(var_name)+2 characters and without its last character.
C2_FirstAssignmentWins ==
    LET lines == FileLines(LastScript.data)
        m == VarLines(LastScript.data, last.var_name)
    IN  (/\ last.called
         /\ last.before = <<>>
         /\ LastScript.kind = "file"
         /\ m # {})
        => \E i \in m :
              /\ \A j \in m : i <= j
              /\ last.kind = "return"
              /\ last.value = SubSeq(lines[i], Len(last.var_name) + 3, Len(lines[i]) - 1)

\* C7: when the script opens and no line begins with var_name=", the call
\* returns the empty string without throwing and stores the empty string
\* under the key pkg_name+var_name.
C7_NoMatchReturnsEmpty ==
    (/\ last.called
     /\ last.before = <<>>
     /\ LastScript.kind = "file"
     /\ VarLines(LastScript.data, last.var_name) = {})
    => /\ last.kind = "return"
       /\ last.value = <<>>
       /\ LastKey \in DOMAIN var_cache
       /\ var_cache[LastKey] = <<>>

====
